---- MODULE Spec2Model ----
(***************************************************************************)
(* Fuel-stop planning: the optimisation engine                             *)
(* (domain/services/optimization_engine.py), the use case that calls it    *)
(* and formats its result (application/use_cases/trip_planning.py), the    *)
(* corridor selector (infrastructure/repositories.py), the routing client  *)
(* (infrastructure/routing/client.py) and the view with its response cache *)
(* (interfaces/api/views.py).                                              *)
(*                                                                         *)
(* Numbers.  The program computes on floats; the model computes on exact   *)
(* rationals held as integers over a common denominator:                   *)
(*   - a distance is held in half miles (Miles(15) is 15.0 miles), so that *)
(*     int() of a mile marker is a real truncation;                        *)
(*   - a price is held in units of 1/PriceScale cent (Cents(350) is 3.50), *)
(*     PriceScale being divisible by every possible station count, so that *)
(*     the mean price is exact;                                            *)
(*   - a cost is held as distance * price, that is in units of             *)
(*     1/CentDen cent with CentDen = 2 * mpg * PriceScale;                 *)
(*   - a value rounded to two decimals is held in hundredths.              *)
(* The corridor selector works on a plane: a coordinate is a pair          *)
(* <<lat, lon>> of integers in tenths of a mile, haversine() is the        *)
(* taxicab distance between two of them (a metric, as the great-circle     *)
(* distance is), and an H3 cell of a resolution is a square of that        *)
(* resolution's grid, its index naming the resolution and the square.      *)
(* Two costs that are equal as rationals are equal in the model; as floats *)
(* they may differ in the last bit, and a value exactly half way between   *)
(* two hundredths may round either way.  The properties below are stated   *)
(* so that neither matters.                                                *)
(***************************************************************************)
EXTENDS Integers, Sequences, FiniteSets, TLC

VARIABLES
    engine,          \* the FuelOptimizationEngine instance (its attributes)
    route_distance,  \* plan_trip argument
    stations,        \* plan_trip argument
    all_nodes,       \* [start_node] + sorted_stations + [end_node], indexed from 0
    min_costs,       \* node index -> [cost, parent]
    pq,              \* the heap, as the set of its (cost, node index) entries
    result,          \* what plan_trip returned
    response,        \* what PlanTripUseCase.execute returned
    pc,              \* position: "idle", "search", "returned", "responded"
    popped,          \* the nodes popped with a non-stale cost, in order
    catalogue,       \* the rows of the fuel_stations table, in id order
    corridor,        \* the last call of get_stations_within_corridor
    previous,        \* an earlier engine, its plan_trip call and its result
    scored,          \* a station list and the scores of its stations
    cache,           \* django.core.cache: key -> value
    http,            \* PlanTripView.post: the request, its position, its response
    stored_by        \* trip-plan cache key -> the request that stored the entry

vars == <<engine, route_distance, stations, all_nodes, min_costs, pq, result,
          response, pc, popped, catalogue, corridor, previous,
          scored, cache, http, stored_by>>

engine_vars == <<engine, route_distance, stations, all_nodes, min_costs, pq,
                 result, response, pc, popped>>

corridor_vars == <<catalogue, corridor>>

call_vars == <<previous, scored>>

view_vars == <<cache, http, stored_by>>

outside_engine == <<corridor_vars, call_vars, view_vars>>

outside_corridor == <<engine_vars, call_vars, view_vars>>

(***************************************************************************)
(* Bounds and units                                                        *)
(***************************************************************************)
MaxStations == 2

Miles(n) == 2 * n

int(m) == m \div 2

RECURSIVE Gcd(_, _)
Gcd(a, b) == IF b = 0 THEN a ELSE Gcd(b, a % b)

RECURSIVE LcmUpTo(_)
LcmUpTo(n) ==
    IF n <= 1 THEN 1
    ELSE LET l == LcmUpTo(n - 1) IN (l * n) \div Gcd(l, n)

PriceScale == LcmUpTo(MaxStations)

Cents(c) == c * PriceScale

CentDen == 2 * engine.mpg * PriceScale

GallonDen == 2 * engine.mpg

Abs(x) == IF x < 0 THEN -x ELSE x

\* the integer nearest to n / d, for n >= 0, d > 0; a tie goes to the even one
RoundDiv(n, d) ==
    LET q == n \div d
        r == n % d
    IN  IF 2 * r < d THEN q
        ELSE IF 2 * r > d THEN q + 1
        ELSE IF q % 2 = 0 THEN q ELSE q + 1

\* round(x, 2) of x = n / d, in hundredths
round2(n, d) == RoundDiv(100 * n, d)

\* round(x, 2) of an amount of x = n / d cents, in cents
round2_amount(n, d) == RoundDiv(n, d)

None == -1

NoResult == [stops |-> <<>>, total_cost |-> 0, tracker |-> <<>>,
             total_gallons |-> 0, returned |-> FALSE]

NoResponse == [sent |-> FALSE]

NoPrevious == [taken |-> FALSE]

NoScores == [called |-> FALSE, stations |-> <<>>]

(***************************************************************************)
(* FuelStation and the engine's configuration                              *)
(***************************************************************************)
FuelStation(i, price, deviation, marker) ==
    [id |-> i, retail_price |-> price, deviation_distance |-> deviation,
     route_mile_marker |-> marker]

FuelOptimizationEngine(range, mpg) ==
    [vehicle_range |-> range, mpg |-> mpg, price_weight |-> 10,
     deviation_weight |-> 2, detour_penalty |-> 5]

\* the instance with other scoring settings: <<price_weight,
\* deviation_weight, detour_penalty>>
configured(e, w) ==
    [e EXCEPT !.price_weight = w[1], !.deviation_weight = w[2],
              !.detour_penalty = w[3]]

start_buffer == Miles(15)

fallback_price == Cents(350)

(***************************************************************************)
(* plan_trip: sorting, starting price, node list                           *)
(***************************************************************************)
\* insert x behind every element whose key is <= x's key
RECURSIVE insort(_, _)
insort(s, x) ==
    IF s = <<>> THEN <<x>>
    ELSE IF s[Len(s)].route_mile_marker <= x.route_mile_marker
         THEN Append(s, x)
         ELSE Append(insort(SubSeq(s, 1, Len(s) - 1), x), s[Len(s)])

\* sorted(stations, key=lambda s: s.route_mile_marker): a stable sort
RECURSIVE sorted(_)
sorted(s) ==
    IF s = <<>> THEN <<>>
    ELSE insort(sorted(SubSeq(s, 1, Len(s) - 1)), s[Len(s)])

RECURSIVE sum_price(_)
sum_price(s) ==
    IF s = <<>> THEN 0 ELSE s[1].retail_price + sum_price(Tail(s))

SetMin(S) == CHOOSE x \in S : \A y \in S : x <= y

local_stations_strict(s) ==
    {i \in 1..Len(s) : s[i].route_mile_marker < start_buffer}

local_stations(s) ==
    {i \in 1..Len(s) : s[i].route_mile_marker <= start_buffer}

start_price(s) ==
    IF local_stations(s) # {}
    THEN SetMin({s[i].retail_price : i \in local_stations(s)})
    ELSE IF s # <<>> THEN sum_price(s) \div Len(s)
    ELSE fallback_price

start_node(s) == FuelStation(-1, start_price(s), 0, 0)

end_node(dist) == FuelStation(-2, 0, 0, dist)

build_nodes(dist, s) ==
    LET srt == sorted(s)
        n == Len(s)
    IN  [i \in 0..(n + 1) |->
            IF i = 0 THEN start_node(s)
            ELSE IF i = n + 1 THEN end_node(dist)
            ELSE srt[i]]

end_idx == Len(stations) + 1

(***************************************************************************)
(* plan_trip: the search                                                   *)
(***************************************************************************)
route_dist(u, v) ==
    all_nodes[v].route_mile_marker - all_nodes[u].route_mile_marker

segment_drive_dist(u, v) ==
    route_dist(u, v) + all_nodes[v].deviation_distance
        + all_nodes[u].deviation_distance

fuel_cost_penalised(u, v) ==
    (segment_drive_dist(u, v)
        + engine.detour_penalty * all_nodes[v].deviation_distance)
    * all_nodes[u].retail_price

\* gallons_needed * u_node.retail_price, as distance * price over CentDen
fuel_cost(u, v) == segment_drive_dist(u, v) * all_nodes[u].retail_price

exceeds_range_route_only(u, v) == route_dist(u, v) > engine.vehicle_range

exceeds_range(u, v) == segment_drive_dist(u, v) > engine.vehicle_range

scan_break_on_detour(u, v) == TRUE

\* lines 81-82: no later node can be within range of u either
scan_break(u, v) == route_dist(u, v) > engine.vehicle_range

improves_unseen_only(v, new_total_cost, mc) == v \notin DOMAIN mc

improves_or_ties(v, new_total_cost, mc) ==
    v \notin DOMAIN mc \/ new_total_cost <= mc[v].cost

improves(v, new_total_cost, mc) ==
    v \notin DOMAIN mc \/ new_total_cost < mc[v].cost

\* the for loop over v_idx, from v on: the pair <<min_costs, pq>> it leaves
RECURSIVE explore(_, _, _, _, _)
explore(u, v, current_cost, mc, q) ==
    IF v > end_idx THEN <<mc, q>>
    ELSE IF exceeds_range(u, v)
         THEN IF scan_break(u, v)
              THEN <<mc, q>>
              ELSE explore(u, v + 1, current_cost, mc, q)
         ELSE LET new_total_cost == current_cost + fuel_cost(u, v)
              IN  IF improves(v, new_total_cost, mc)
                  THEN explore(u, v + 1, current_cost,
                               (v :> [cost |-> new_total_cost, parent |-> u]) @@ mc,
                               q \cup {<<new_total_cost, v>>})
                  ELSE explore(u, v + 1, current_cost, mc, q)

\* heapq.heappop: the least (cost, index) pair
heap_top(q) ==
    CHOOSE e \in q : \A f \in q :
        e[1] < f[1] \/ (e[1] = f[1] /\ e[2] <= f[2])

(***************************************************************************)
(* plan_trip: path reconstruction and result objects                       *)
(***************************************************************************)
\* follows the parents from curr back to Start; the list comes out reversed
RECURSIVE path_from(_, _)
path_from(mc, curr) ==
    IF curr = None THEN <<>>
    ELSE Append(path_from(mc, mc[curr].parent), curr)

path_indices == path_from(min_costs, end_idx)

avg_price(s) ==
    IF s # <<>> THEN sum_price(s) \div Len(s) ELSE fallback_price

_calculate_score_unshifted(station, avg) ==
    LET pw == engine.price_weight
        dw == engine.deviation_weight
        p  == station.retail_price
        dh == station.deviation_distance
    IN  RoundDiv(20000 * avg, 2 * pw * p + dw * dh * avg)

\* 10 / (1 + 0.1 * (price_weight * p / avg + deviation_weight * dev)), rounded
_calculate_score(station, avg) ==
    LET pw == engine.price_weight
        dw == engine.deviation_weight
        p  == station.retail_price
        dh == station.deviation_distance
    IN  IF avg # 0
        THEN RoundDiv(20000 * avg, 20 * avg + 2 * pw * p + dw * dh * avg)
        ELSE RoundDiv(20000, 20 + 2 * pw + dw * dh)

stop_dist_route_only(u, v) ==
    all_nodes[v].route_mile_marker - all_nodes[u].route_mile_marker

\* lines 123-124: dist
stop_dist(u, v) ==
    (all_nodes[v].route_mile_marker - all_nodes[u].route_mile_marker)
        + all_nodes[v].deviation_distance + all_nodes[u].deviation_distance

stop_cost_downstream(u, v) == stop_dist(u, v) * all_nodes[v].retail_price

\* lines 126-130: gallons_needed * u_node.retail_price, over CentDen
stop_cost(u, v) == stop_dist(u, v) * all_nodes[u].retail_price

FuelStopDecision(u, v, avg) ==
    [station         |-> all_nodes[u],
     mile_marker     |-> all_nodes[u].route_mile_marker,
     gallons_filled  |-> round2(stop_dist(u, v), GallonDen),
     cost            |-> round2_amount(stop_cost(u, v), CentDen),
     price_per_gallon |-> all_nodes[u].retail_price,
     score           |-> _calculate_score(all_nodes[u], avg)]

is_stop(u) == u # 0

\* the loop over the path's pairs, from pair i on: the stops it appends
RECURSIVE fuel_stops(_, _, _)
fuel_stops(path, i, avg) ==
    IF i >= Len(path) THEN <<>>
    ELSE (IF is_stop(path[i])
          THEN <<FuelStopDecision(path[i], path[i + 1], avg)>>
          ELSE <<>>) \o fuel_stops(path, i + 1, avg)

\* total_gallons before rounding, over GallonDen
RECURSIVE total_dist(_, _)
total_dist(path, i) ==
    IF i >= Len(path) THEN 0
    ELSE stop_dist(path[i], path[i + 1]) + total_dist(path, i + 1)

(***************************************************************************)
(* _generate_tracker                                                       *)
(***************************************************************************)
first_mile_inclusive(start_m) == start_m

first_mile(start_m) == start_m + 1

\* lines 185-190: dist_real / mpg * u_node.retail_price, over CentDen
segment_cost(u, v) ==
    ((all_nodes[v].route_mile_marker - all_nodes[u].route_mile_marker)
        + all_nodes[v].deviation_distance + all_nodes[u].deviation_distance)
    * all_nodes[u].retail_price

\* cumulative_spent after k additions of cost_per_mile to cum, rounded
spent_after(cum, k, cost, dist_miles) ==
    IF dist_miles > 0
    THEN round2_amount(cum * dist_miles + k * cost, CentDen * dist_miles)
    ELSE round2_amount(cum, CentDen)

\* the entries of one segment; cum is cumulative_spent before it
segment_entries(u, v, cum) ==
    LET start_m == int(all_nodes[u].route_mile_marker)
        end_m == int(all_nodes[v].route_mile_marker)
        dist_miles == end_m - start_m
        count == end_m + 1 - first_mile(start_m)
    IN  [k \in 1..count |->
            [mile |-> first_mile(start_m) + k - 1,
             total_spent |-> spent_after(cum, k, segment_cost(u, v),
                                         dist_miles)]]

\* cumulative_spent after the segment
segment_spent(u, v, cum) ==
    LET dist_miles == int(all_nodes[v].route_mile_marker)
                        - int(all_nodes[u].route_mile_marker)
    IN  IF dist_miles > 0 THEN cum + segment_cost(u, v) ELSE cum

RECURSIVE _generate_tracker(_, _, _)
_generate_tracker(path, i, cum) ==
    IF i >= Len(path) THEN <<>>
    ELSE segment_entries(path[i], path[i + 1], cum)
            \o _generate_tracker(path, i + 1,
                                 segment_spent(path[i], path[i + 1], cum))

sentinel_zero_cost ==
    [stops |-> <<>>, total_cost |-> 0, tracker |-> <<>>,
     total_gallons |-> 0, returned |-> TRUE]

sentinel ==
    [stops |-> <<>>, total_cost |-> -100, tracker |-> <<>>,
     total_gallons |-> 0, returned |-> TRUE]

feasible_result ==
    LET path == path_indices
    IN  [stops |-> fuel_stops(path, 1, avg_price(stations)),
         total_cost |-> round2_amount(min_costs[end_idx].cost, CentDen),
         tracker |-> _generate_tracker(path, 1, 0),
         total_gallons |-> round2(total_dist(path, 1), GallonDen),
         returned |-> TRUE]

(***************************************************************************)
(* PlanTripUseCase.execute: the response                                   *)
(***************************************************************************)
format_stop(s) ==
    [price_per_gallon |-> s.station.retail_price,
     gallons_filled |-> round2(s.gallons_filled, 100),
     cost |-> round2(s.cost, 100),
     mile_marker |-> round2(s.mile_marker, 2),
     score |-> s.score]

format_response(dist, r) ==
    [route |-> [distance_miles |-> dist],
     fuel_summary |-> [total_cost |-> r.total_cost,
                       total_gallons |-> r.total_gallons,
                       total_stops |-> Len(r.stops)],
     stops |-> [i \in 1..Len(r.stops) |-> format_stop(r.stops[i])],
     per_mile_progression |-> r.tracker,
     sent |-> TRUE]

(***************************************************************************)
(* DjangoFuelRepository and the loader                                     *)
(***************************************************************************)
H3_RESOLUTION == 7

LOADER_RESOLUTION == 4

\* 0.1 miles, in tenths of a mile
close_enough == 1

\* width, in tenths of a mile, of a cell: about 1.5 miles at resolution 7,
\* and about 18.5 times that (7 to the power 3/2) three resolutions coarser
cell_width(res) == IF res >= 7 THEN 15 ELSE 277

\* h3.latlng_to_cell(lat, lon, res)
latlng_to_cell(lat, lon, res) ==
    <<res, lat \div cell_width(res), lon \div cell_width(res)>>

\* haversine(a, b, unit=Unit.MILES), in tenths of a mile
haversine(a, b) == Abs(a[1] - b[1]) + Abs(a[2] - b[2])

\* polyline.decode: an encoded polyline is its sequence of coordinate
\* deltas; decoding accumulates them
RECURSIVE decode(_)
decode(polyline_str) ==
    IF polyline_str = <<>> THEN <<>>
    ELSE LET before == decode(SubSeq(polyline_str, 1, Len(polyline_str) - 1))
             delta == polyline_str[Len(polyline_str)]
         IN  IF before = <<>> THEN <<delta>>
             ELSE Append(before, <<before[Len(before)][1] + delta[1],
                                   before[Len(before)][2] + delta[2]>>)

FuelStationModel(i, lat, lon, h3_index, price) ==
    [id |-> i, latitude |-> lat, longitude |-> lon, h3_index |-> h3_index,
     retail_price |-> price]

\* rows appended to the table, with ids following the last one; each row
\* is a <<latitude, longitude, retail_price>> indexed at resolution res
bulk_create(table, rows, res) ==
    table \o [k \in 1..Len(rows) |->
                FuelStationModel(Len(table) + k, rows[k][1], rows[k][2],
                                 latlng_to_cell(rows[k][1], rows[k][2], res),
                                 rows[k][3])]

route_cells(decoded_coords, res) ==
    {latlng_to_cell(decoded_coords[i][1], decoded_coords[i][2], res) :
        i \in 1..Len(decoded_coords)}

\* FuelStationModel.objects.filter(h3_index__in=...): the matching rows, in
\* table order
RECURSIVE filter_h3_index_in(_, _)
filter_h3_index_in(table, cells) ==
    IF table = <<>> THEN <<>>
    ELSE (IF table[1].h3_index \in cells THEN <<table[1]>> ELSE <<>>)
            \o filter_h3_index_in(Tail(table), cells)

\* lines 58-64: cumulative distance at every route point
RECURSIVE cum_dist(_, _)
cum_dist(decoded_coords, i) ==
    IF i <= 1 THEN 0
    ELSE cum_dist(decoded_coords, i - 1)
            + haversine(decoded_coords[i - 1], decoded_coords[i])

\* lines 71-85: the scan of the route from point i on, <<min_dist, marker>>
\* so far; a min_dist of -1 stands for float('inf')
RECURSIVE scan_route(_, _, _, _, _)
scan_route(station_coord, decoded_coords, i, min_dist, closest_marker) ==
    IF i > Len(decoded_coords) THEN <<min_dist, closest_marker>>
    ELSE LET d == haversine(station_coord, decoded_coords[i])
         IN  IF min_dist = -1 \/ d < min_dist
             THEN IF d < close_enough
                  THEN <<d, cum_dist(decoded_coords, i)>>
                  ELSE scan_route(station_coord, decoded_coords, i + 1, d,
                                  cum_dist(decoded_coords, i))
             ELSE scan_route(station_coord, decoded_coords, i + 1, min_dist,
                             closest_marker)

within_buffer(min_dist, buffer_miles) == min_dist <= buffer_miles

\* lines 66-102: the entities of the rows of qs that pass the exact filter
RECURSIVE fine_filter(_, _, _)
fine_filter(qs, decoded_coords, buffer_miles) ==
    IF qs = <<>> THEN <<>>
    ELSE LET model == qs[1]
             found == scan_route(<<model.latitude, model.longitude>>,
                                 decoded_coords, 1, -1, 0)
         IN  (IF within_buffer(found[1], buffer_miles)
              THEN <<[id |-> model.id, retail_price |-> model.retail_price,
                      latitude |-> model.latitude,
                      longitude |-> model.longitude,
                      h3_index |-> model.h3_index,
                      deviation_distance |-> found[1],
                      route_mile_marker |-> found[2]]>>
              ELSE <<>>)
             \o fine_filter(Tail(qs), decoded_coords, buffer_miles)

select_stations(table, polyline_str, buffer_miles) ==
    LET decoded_coords == decode(polyline_str)
        cells == route_cells(decoded_coords, H3_RESOLUTION)
    IN  IF decoded_coords = <<>> THEN <<>>
        ELSE IF cells = {} THEN <<>>
        ELSE fine_filter(filter_h3_index_in(table, cells), decoded_coords,
                         buffer_miles)

NoCall == [called |-> FALSE]

(***************************************************************************)
(* PlanTripView, RouteRequestSerializer and OpenRouteServiceClient         *)
(*                                                                         *)
(* A string is the sequence of its characters, each a one-character        *)
(* string; a literal prefix of a format string is one element.  The        *)
(* routing service reports a distance in thousandths of a mile, so that    *)
(* dividing by 1609.34 changes the unit and round(distance, 2) is a real   *)
(* rounding to hundredths; the engine is handed distances in its own unit, *)
(* half miles.                                                             *)
(***************************************************************************)
RECURSIVE lstrip(_)
lstrip(str) ==
    IF str # <<>> /\ str[1] = " " THEN lstrip(Tail(str)) ELSE str

RECURSIVE rstrip(_)
rstrip(str) ==
    IF str # <<>> /\ str[Len(str)] = " "
    THEN rstrip(SubSeq(str, 1, Len(str) - 1))
    ELSE str

strip(str) == rstrip(lstrip(str))

lower_char(c) == IF c = "A" THEN "a" ELSE IF c = "B" THEN "b" ELSE c

lower(str) == [i \in 1..Len(str) |-> lower_char(str[i])]

\* str.replace(" ", "_")
replace(str) == [i \in 1..Len(str) |-> IF str[i] = " " THEN "_" ELSE str[i]]

\* hashlib.md5(..).hexdigest(): a digest, taken to be free of collisions
hexdigest(str) == <<"md5">> \o str

\* views.py, lines 29-30
trip_plan_key(start_loc, end_loc) ==
    hexdigest(<<"trip_plan_">> \o lower(strip(start_loc)) \o <<"_">>
                 \o lower(strip(end_loc)))

\* client.py, line 16
route_key(start_pos, end_pos) ==
    lower(replace(<<"route_">> \o start_pos \o <<"_">> \o end_pos))

\* client.py, line 92
geo_key(location) == lower(replace(<<"geo_">> \o location))

\* CharField(required=True): surrounding whitespace is trimmed and a blank
\* value is rejected
validated(value) == strip(value)

is_valid(data) ==
    /\ validated(data.start_location) # <<>>
    /\ validated(data.end_location) # <<>>

HTTP_200_OK == 200

HTTP_400_BAD_REQUEST == 400

NoRoute == [found |-> FALSE]

\* summary.get("distance", 0)
summary_distance(summary) ==
    IF "distance" \in DOMAIN summary THEN summary.distance ELSE 0

\* client.py, lines 58-72: the Route of routes[0], total_distance_miles in
\* hundredths of a mile
Route(route_data) ==
    [found |-> TRUE,
     total_distance_miles |-> round2(summary_distance(route_data.summary),
                                     1000),
     polyline |-> route_data.geometry]

\* client.py, lines 54-72: what get_route returns for the service's data
get_route_result(data) ==
    IF data.routes = <<>> THEN NoRoute ELSE Route(data.routes[1])

route_missing_unchecked(route) == FALSE

\* trip_planning.py, line 20: not route
route_missing(route) == ~route.found

\* cache.set(key, value)
cache_set(c, key, value) == (key :> value) @@ c

\* _geocode: the cache after the call; found says whether the geocoding
\* service knows the location
geocoded(c, location, found) ==
    IF geo_key(location) \in DOMAIN c THEN c
    ELSE IF found THEN cache_set(c, geo_key(location), "coords")
    ELSE c

\* _geocode: whether it returns coordinates
has_coords(c, location, found) == geo_key(location) \in DOMAIN c \/ found

\* the FuelStation entity of the selector in the engine's units
engine_station(entity) ==
    FuelStation(entity.id, entity.retail_price,
                entity.deviation_distance \div 5,
                entity.route_mile_marker \div 5)

NoRequest ==
    [pc |-> "none", n |-> 0, start_location |-> <<>>, end_location |-> <<>>,
     cache_key |-> <<>>, route |-> NoRoute, no_route |-> FALSE, calls |-> {},
     cached |-> FALSE, status |-> 0, body |-> NoResponse]

(***************************************************************************)
(* Inputs                                                                  *)
(***************************************************************************)
MileMarkers == {0, Miles(10), Miles(20) + 1, Miles(30)}

Deviations == {0, Miles(5)}

RetailPrices == {Cents(101), Cents(350), Cents(400)}

RouteDistances == {1, Miles(20), Miles(30)}

SearchRange == Miles(25)

StationKinds(dist) ==
    {<<p, d, m>> : p \in RetailPrices, d \in Deviations,
                   m \in {x \in MileMarkers : x <= dist}}

StationLists(dist) ==
    UNION {{[i \in 1..n |-> FuelStation(i, f[i][1], f[i][2], f[i][3])] :
               f \in [1..n -> StationKinds(dist)]} : n \in 0..MaxStations}

\* the scenarios of the specification, section 8
Scenarios ==
    {[range |-> Miles(500), route_distance |-> Miles(300),
      stations |-> <<FuelStation(1, Cents(300), 0, Miles(100)),
                     FuelStation(2, Cents(400), 0, Miles(150))>>],
     [range |-> Miles(200), route_distance |-> Miles(300),
      stations |-> <<FuelStation(1, Cents(350), 0, Miles(120)),
                     FuelStation(2, Cents(300), 0, Miles(180))>>],
     [range |-> Miles(200), route_distance |-> Miles(300),
      stations |-> <<FuelStation(1, Cents(300), Miles(15), Miles(150)),
                     FuelStation(2, Cents(310), 0, Miles(160))>>],
     [range |-> Miles(100), route_distance |-> Miles(300),
      stations |-> <<>>]}

\* stations on the edge of the start buffer and just beyond it
BufferEdgeTrips ==
    {[range |-> SearchRange, route_distance |-> Miles(30),
      stations |-> <<FuelStation(1, p[1], 0, start_buffer + 1),
                     FuelStation(2, p[2], 0, start_buffer)>>] :
        p \in RetailPrices \X RetailPrices}

Trips ==
    Scenarios \cup BufferEdgeTrips \cup
    UNION {{[range |-> SearchRange, route_distance |-> dist, stations |-> s] :
               s \in StationLists(dist)} : dist \in RouteDistances}

\* <<price_weight, deviation_weight, detour_penalty>>
ScoringWeights == {<<10, 2, 5>>, <<1, 2, 5>>, <<10, 0, 5>>, <<10, 2, 0>>}

\* prices a cent apart and deviations half a mile apart
ScoredPrices == {Cents(349), Cents(350), Cents(351), Cents(400)}

ScoredDeviations == {0, 1, Miles(5), Miles(5) + 1, Miles(10)}

ScoredLists ==
    UNION {{[i \in 1..n |-> FuelStation(i, f[i][1], f[i][2], 0)] :
               f \in [1..n -> ScoredPrices \X ScoredDeviations]} :
           n \in 1..MaxStations}

MaxRows == 2

MaxRequests == 2

Locations ==
    {<<"a">>, <<"A", " ">>, <<"a", "_", "b">>, <<"b", "_", "a">>}

\* the bodies of the requests: every pair of locations, and one without an
\* end_location
RequestData ==
    {[start_location |-> l1, end_location |-> l2] :
        l1 \in Locations, l2 \in Locations}
    \cup {[start_location |-> <<"a">>, end_location |-> <<>>]}

\* a route of 40 miles due east with vertices at 0, 20, 30 and 40 miles,
\* and one of 600 miles with two vertices
Geometry40 == <<<<0, 0>>, <<0, 200>>, <<0, 100>>, <<0, 100>>>>

Geometry600 == <<<<0, 0>>, <<0, 6000>>>>

\* what the directions request can give: an HTTP error, no route, and
\* routes whose reported distance is the length of the geometry, is longer
\* than it, or is missing
DirectionsResponses ==
    {[raised |-> TRUE, routes |-> <<>>],
     [raised |-> FALSE, routes |-> <<>>],
     [raised |-> FALSE,
      routes |-> <<[summary |-> [distance |-> 40000, duration |-> 2400],
                    geometry |-> Geometry40]>>],
     [raised |-> FALSE,
      routes |-> <<[summary |-> [distance |-> 45000, duration |-> 2400],
                    geometry |-> Geometry40]>>],
     [raised |-> FALSE,
      routes |-> <<[summary |-> [duration |-> 2400],
                    geometry |-> Geometry40]>>],
     [raised |-> FALSE,
      routes |-> <<[summary |-> [distance |-> 600000, duration |-> 36000],
                    geometry |-> Geometry600]>>]}

\* a cheap station on the route 20 miles from the origin and a dear one
\* half a mile off the route 30 miles from it
CatalogueRows == <<<<0, 200, Cents(101)>>, <<5, 300, Cents(400)>>>>

\* the table as bulk_insert and as the loader leave it
Catalogues ==
    {bulk_create(<<>>, CatalogueRows, H3_RESOLUTION),
     bulk_create(<<>>, CatalogueRows, LOADER_RESOLUTION)}

\* a straight east-west route with a vertex every mile, one with a repeated
\* vertex, and the empty polyline
Polylines ==
    {<<>>,
     <<<<0, 0>>, <<0, 10>>, <<0, 10>>, <<0, 10>>>>,
     <<<<0, 5>>, <<0, 0>>, <<0, 20>>>>}

\* 1 mile and 10 miles, in tenths of a mile
BufferMiles == {10, 100}

\* <<lat, lon>> on the route, 0.1 miles along it, and 0.5, 2 and 15 miles
\* off it
StationCoords == {<<0, 10>>, <<0, 11>>, <<5, 10>>, <<20, 10>>, <<150, 10>>}

RowBatches(room) ==
    UNION {[1..n -> {<<c[1], c[2], Cents(350)>> : c \in StationCoords}] :
              n \in 1..room}

(***************************************************************************)
(* Actions                                                                 *)
(***************************************************************************)
InitCorridor ==
    /\ catalogue = <<>>
    /\ corridor = NoCall

InitView ==
    /\ cache = <<>>
    /\ http = NoRequest
    /\ stored_by = <<>>

InitCalls ==
    /\ previous = NoPrevious
    /\ scored = NoScores

InitEngine ==
    /\ route_distance = 0
    /\ stations = <<>>
    /\ all_nodes = <<>>
    /\ min_costs = <<>>
    /\ pq = {}
    /\ result = NoResult
    /\ response = NoResponse
    /\ pc = "idle"
    /\ popped = <<>>

Init ==
    /\ engine \in {FuelOptimizationEngine(t.range, 10) : t \in Trips}
    /\ InitEngine
    /\ InitCorridor
    /\ InitCalls
    /\ InitView

\* plan_trip, lines 20-51: up to the first iteration of the while loop
plan_trip_begin ==
    /\ pc = "idle"
    /\ \E t \in Trips :
        /\ t.range = engine.vehicle_range
        /\ route_distance' = t.route_distance
        /\ stations' = t.stations
        /\ all_nodes' = build_nodes(t.route_distance, t.stations)
    /\ min_costs' = (0 :> [cost |-> 0, parent |-> None])
    /\ pq' = {<<0, 0>>}
    /\ pc' = "search"
    /\ popped' = <<>>
    /\ UNCHANGED <<engine, result, response>>
    /\ UNCHANGED outside_engine

is_stale_never(e) == FALSE

is_stale(e) == e[1] > min_costs[e[2]].cost

\* one iteration of the while loop that pops a stale entry
pop_stale ==
    /\ pc = "search"
    /\ pq # {}
    /\ is_stale(heap_top(pq))
    /\ pq' = pq \ {heap_top(pq)}
    /\ UNCHANGED <<engine, route_distance, stations, all_nodes, min_costs,
                   result, response, pc, popped>>
    /\ UNCHANGED outside_engine

\* one iteration of the while loop that pops the End node
pop_end ==
    /\ pc = "search"
    /\ pq # {}
    /\ ~is_stale(heap_top(pq))
    /\ heap_top(pq)[2] = end_idx
    /\ pq' = pq \ {heap_top(pq)}
    /\ popped' = Append(popped, end_idx)
    /\ UNCHANGED <<engine, route_distance, stations, all_nodes, min_costs,
                   result, response, pc>>
    /\ UNCHANGED outside_engine

\* one iteration of the while loop that explores the neighbours of a node
pop_explore ==
    /\ pc = "search"
    /\ pq # {}
    /\ ~is_stale(heap_top(pq))
    /\ heap_top(pq)[2] # end_idx
    /\ LET e == heap_top(pq)
           after == explore(e[2], e[2] + 1, e[1], min_costs, pq \ {e})
       IN  /\ min_costs' = after[1]
           /\ pq' = after[2]
           /\ popped' = Append(popped, e[2])
    /\ UNCHANGED <<engine, route_distance, stations, all_nodes, result,
                   response, pc>>
    /\ UNCHANGED outside_engine

\* lines 96-99: End was never reached
return_infeasible ==
    /\ pc = "search"
    /\ pq = {}
    /\ end_idx \notin DOMAIN min_costs
    /\ result' = sentinel
    /\ pc' = "returned"
    /\ UNCHANGED <<engine, route_distance, stations, all_nodes, min_costs,
                   pq, response, popped>>
    /\ UNCHANGED outside_engine

\* lines 101-148
return_plan ==
    /\ pc = "search"
    /\ pq = {}
    /\ end_idx \in DOMAIN min_costs
    /\ result' = feasible_result
    /\ pc' = "returned"
    /\ UNCHANGED <<engine, route_distance, stations, all_nodes, min_costs,
                   pq, response, popped>>
    /\ UNCHANGED outside_engine

\* PlanTripUseCase.execute, lines 32-58
execute_return ==
    /\ pc = "returned"
    /\ response' = format_response(route_distance, result)
    /\ pc' = "responded"
    /\ UNCHANGED <<engine, route_distance, stations, all_nodes, min_costs,
                   pq, result, popped>>
    /\ UNCHANGED outside_engine

Next ==
    \/ plan_trip_begin
    \/ pop_stale
    \/ pop_end
    \/ pop_explore
    \/ return_infeasible
    \/ return_plan
    \/ execute_return

Spec == Init /\ [][Next]_vars

\* a second engine, with any scoring settings and the first one's
\* vehicle_range and mpg, is constructed and its plan_trip is called with
\* the arguments of the first one's call
plan_trip_again ==
    /\ pc = "responded"
    /\ ~previous.taken
    /\ previous' = [taken |-> TRUE, engine |-> engine,
                    route_distance |-> route_distance,
                    stations |-> stations, result |-> result]
    /\ \E w \in ScoringWeights : engine' = configured(engine, w)
    /\ all_nodes' = build_nodes(route_distance, stations)
    /\ min_costs' = (0 :> [cost |-> 0, parent |-> None])
    /\ pq' = {<<0, 0>>}
    /\ result' = NoResult
    /\ response' = NoResponse
    /\ pc' = "search"
    /\ popped' = <<>>
    /\ UNCHANGED <<route_distance, stations, scored>>
    /\ UNCHANGED <<corridor_vars, view_vars>>

NextScoring ==
    \/ Next
    \/ plan_trip_again

SpecScoring == Init /\ [][NextScoring]_vars

InitScores ==
    /\ \E w \in ScoringWeights :
          engine = configured(FuelOptimizationEngine(Miles(500), 10), w)
    /\ InitEngine
    /\ InitCorridor
    /\ InitView
    /\ previous = NoPrevious
    /\ \E s \in ScoredLists : scored = [called |-> FALSE, stations |-> s]

\* lines 114 and 139: avg_price and the score of each station of the list,
\* as plan_trip computes them for the stations it stops at
calculate_scores ==
    /\ ~scored.called
    /\ scored' = [called |-> TRUE, stations |-> scored.stations,
                  avg_price |-> avg_price(scored.stations),
                  score |-> [i \in 1..Len(scored.stations) |->
                               _calculate_score(scored.stations[i],
                                                avg_price(scored.stations))]]
    /\ UNCHANGED <<engine_vars, corridor_vars, previous, view_vars>>

NextScores == calculate_scores

SpecScores == InitScores /\ [][NextScores]_vars

\* Command.handle of load_fuel_data: the geocoded rows of the CSV file are
\* indexed (lines 97-107) and inserted
load_fuel_data ==
    /\ Len(catalogue) < MaxRows
    /\ \E rows \in RowBatches(MaxRows - Len(catalogue)) :
          catalogue' = bulk_create(catalogue, rows, LOADER_RESOLUTION)
    /\ UNCHANGED corridor
    /\ UNCHANGED outside_corridor

\* DjangoFuelRepository.bulk_insert
bulk_insert ==
    /\ Len(catalogue) < MaxRows
    /\ \E rows \in RowBatches(MaxRows - Len(catalogue)) :
          catalogue' = bulk_create(catalogue, rows, H3_RESOLUTION)
    /\ UNCHANGED corridor
    /\ UNCHANGED outside_corridor

\* DjangoFuelRepository.get_stations_within_corridor
get_stations_within_corridor ==
    /\ \E polyline_str \in Polylines, buffer_miles \in BufferMiles :
          corridor' = [called |-> TRUE, polyline_str |-> polyline_str,
                       buffer_miles |-> buffer_miles,
                       stations |-> select_stations(catalogue, polyline_str,
                                                    buffer_miles)]
    /\ UNCHANGED catalogue
    /\ UNCHANGED outside_corridor

NextCorridor ==
    \/ load_fuel_data
    \/ bulk_insert
    \/ get_stations_within_corridor

InitSelector ==
    /\ engine = FuelOptimizationEngine(Miles(500), 10)
    /\ InitEngine
    /\ InitCorridor
    /\ InitCalls
    /\ InitView

SpecCorridor == InitSelector /\ [][NextCorridor]_vars

(***************************************************************************)
(* PlanTripView.post and PlanTripUseCase.execute                           *)
(***************************************************************************)
InitRequest ==
    /\ engine = FuelOptimizationEngine(Miles(500), 10)
    /\ InitEngine
    /\ catalogue \in Catalogues
    /\ corridor = NoCall
    /\ InitCalls
    /\ InitView

\* the response of a request that ends with an error
error_response(message) ==
    [http EXCEPT !.pc = "done", !.status = HTTP_400_BAD_REQUEST,
                 !.body = [error |-> message]]

\* PlanTripView.post, lines 21-47 and 60: a request arrives; it is
\* rejected, answered from the cache, or the use case is set up
post ==
    /\ http.pc \in {"none", "done"}
    /\ http.n < MaxRequests
    /\ \E data \in RequestData :
          LET start_loc == validated(data.start_location)
              end_loc == validated(data.end_location)
              cache_key == trip_plan_key(start_loc, end_loc)
              request == [NoRequest EXCEPT !.n = http.n + 1,
                                           !.start_location = start_loc,
                                           !.end_location = end_loc,
                                           !.cache_key = cache_key]
          IN  IF ~is_valid(data)
              THEN http' = [request EXCEPT !.pc = "done",
                                !.status = HTTP_400_BAD_REQUEST,
                                !.body = [error |-> "serializer.errors"]]
              ELSE IF cache_key \in DOMAIN cache
              THEN http' = [request EXCEPT !.pc = "done", !.cached = TRUE,
                                !.status = HTTP_200_OK,
                                !.body = cache[cache_key]]
              ELSE http' = [request EXCEPT !.pc = "execute"]
    /\ engine' = FuelOptimizationEngine(Miles(500), 10)
    /\ route_distance' = 0
    /\ stations' = <<>>
    /\ all_nodes' = <<>>
    /\ min_costs' = <<>>
    /\ pq' = {}
    /\ result' = NoResult
    /\ response' = NoResponse
    /\ pc' = "idle"
    /\ popped' = <<>>
    /\ UNCHANGED <<cache, stored_by>>
    /\ UNCHANGED <<corridor_vars, call_vars>>

\* PlanTripUseCase.execute, lines 19-21, with OpenRouteServiceClient
\* .get_route and, when it raises, PlanTripView.post, lines 57-58
execute_get_route ==
    /\ http.pc = "execute"
    /\ LET start_pos == http.start_location
           end_pos == http.end_location
           key == route_key(start_pos, end_pos)
           called == [http EXCEPT !.calls = @ \cup {"get_route"}]
       IN  IF key \in DOMAIN cache
           THEN /\ http' = [called EXCEPT !.pc = "routed",
                                          !.route = cache[key]]
                /\ UNCHANGED cache
           ELSE \E found_start, found_end \in BOOLEAN :
                  LET c1 == geocoded(cache, start_pos, found_start)
                      c2 == geocoded(c1, end_pos, found_end)
                  IN  IF ~(has_coords(cache, start_pos, found_start)
                             /\ has_coords(c1, end_pos, found_end))
                      THEN /\ http' = [error_response(
                                          "Could not geocode locations")
                                          EXCEPT !.calls = called.calls]
                           /\ cache' = c2
                      ELSE \E data \in DirectionsResponses :
                             IF data.raised
                             THEN /\ http' = [error_response("HTTPError")
                                                EXCEPT !.calls = called.calls]
                                  /\ cache' = c2
                             ELSE LET route == get_route_result(data)
                                  IN  /\ cache' =
                                            IF route = NoRoute THEN c2
                                            ELSE cache_set(c2, key, route)
                                      /\ http' =
                                            IF route_missing(route)
                                            THEN [error_response(
                                                    "Could not find route from reliable source.")
                                                    EXCEPT
                                                    !.calls = called.calls,
                                                    !.no_route = TRUE]
                                            ELSE [called EXCEPT
                                                    !.pc = "routed",
                                                    !.route = route,
                                                    !.no_route =
                                                        route = NoRoute]
    /\ UNCHANGED stored_by
    /\ UNCHANGED <<engine_vars, corridor_vars, call_vars>>

\* PlanTripUseCase.execute, lines 23-25
execute_get_stations ==
    /\ http.pc = "routed"
    /\ corridor' = [called |-> TRUE, polyline_str |-> http.route.polyline,
                    buffer_miles |-> 100,
                    stations |-> select_stations(catalogue,
                                                 http.route.polyline, 100)]
    /\ http' = [http EXCEPT !.pc = "selected",
                   !.calls = @ \cup {"get_stations_within_corridor"}]
    /\ UNCHANGED <<catalogue, cache, stored_by>>
    /\ UNCHANGED <<engine_vars, call_vars>>

\* PlanTripUseCase.execute, lines 28-30: plan_trip is called, and runs up
\* to the first iteration of its while loop
execute_plan_trip ==
    /\ http.pc = "selected"
    /\ pc = "idle"
    /\ LET dist == http.route.total_distance_miles \div 50
           found == [i \in 1..Len(corridor.stations) |->
                        engine_station(corridor.stations[i])]
       IN  /\ route_distance' = dist
           /\ stations' = found
           /\ all_nodes' = build_nodes(dist, found)
    /\ min_costs' = (0 :> [cost |-> 0, parent |-> None])
    /\ pq' = {<<0, 0>>}
    /\ pc' = "search"
    /\ popped' = <<>>
    /\ http' = [http EXCEPT !.pc = "planning",
                   !.calls = @ \cup {"plan_trip"}]
    /\ UNCHANGED <<engine, result, response>>
    /\ UNCHANGED <<cache, stored_by>>
    /\ UNCHANGED <<corridor_vars, call_vars>>

\* PlanTripView.post, lines 51-56
post_return ==
    /\ http.pc = "planning"
    /\ pc = "responded"
    /\ cache' = cache_set(cache, http.cache_key, response)
    /\ stored_by' = (http.cache_key :>
                        [start_location |-> http.start_location,
                         end_location |-> http.end_location]) @@ stored_by
    /\ http' = [http EXCEPT !.pc = "done", !.status = HTTP_200_OK,
                   !.body = response, !.calls = @ \cup {"cache.set"}]
    /\ UNCHANGED <<engine_vars, corridor_vars, call_vars>>

NextRequest ==
    \/ post
    \/ execute_get_route
    \/ execute_get_stations
    \/ execute_plan_trip
    \/ pop_stale
    \/ pop_end
    \/ pop_explore
    \/ return_infeasible
    \/ return_plan
    \/ execute_return
    \/ post_return

SpecRequest == InitRequest /\ [][NextRequest]_vars

(***************************************************************************)
(* Properties of plan_trip                                                 *)
(***************************************************************************)
Returned == pc \in {"returned", "responded"}

FeasibleResult == Returned /\ result.total_cost # -100

StationIdx == 1..Len(stations)

\* every sequence of distinct stations (as indices into all_nodes)
StationSeqs ==
    UNION {{q \in [1..k -> StationIdx] :
               \A i, j \in 1..k : i # j => q[i] # q[j]} :
           k \in 0..Len(stations)}

ViaStations(q) == <<0>> \o q \o <<end_idx>>

NonDecreasingMiles(q) ==
    \A i \in 1..(Len(q) - 1) :
        all_nodes[q[i]].route_mile_marker <= all_nodes[q[i + 1]].route_mile_marker

NodeOrder(q) == \A i \in 1..(Len(q) - 1) : q[i] < q[i + 1]

WithinRange(path) ==
    \A i \in 1..(Len(path) - 1) :
        (all_nodes[path[i + 1]].route_mile_marker
            - all_nodes[path[i]].route_mile_marker)
        + all_nodes[path[i]].deviation_distance
        + all_nodes[path[i + 1]].deviation_distance <= engine.vehicle_range

RECURSIVE PathCost(_, _)
PathCost(path, i) ==
    IF i >= Len(path) THEN 0
    ELSE ((all_nodes[path[i + 1]].route_mile_marker
              - all_nodes[path[i]].route_mile_marker)
          + all_nodes[path[i]].deviation_distance
          + all_nodes[path[i + 1]].deviation_distance)
            * all_nodes[path[i]].retail_price
         + PathCost(path, i + 1)

IsMinimumOver(Q) ==
    /\ \A q \in Q : min_costs[end_idx].cost <= PathCost(ViaStations(q), 1)
    /\ \E q \in Q : min_costs[end_idx].cost = PathCost(ViaStations(q), 1)

\* C1 (as claimed): a non-sentinel result costs the minimum over every
\* sequence of distinct stations in non-decreasing mile-marker order whose
\* segments are all within the vehicle range
C1_OptimalOverMileOrder ==
    FeasibleResult =>
        IsMinimumOver({q \in StationSeqs :
                          NonDecreasingMiles(q) /\ WithinRange(ViaStations(q))})

\* C1 (amended): a non-sentinel result costs the minimum over every
\* sequence of distinct stations taken in the order of the sorted node list
\* (ascending mile marker, stations sharing a mile marker in input order)
\* whose segments are all within the vehicle range
C1_OptimalOverNodeOrder ==
    FeasibleResult =>
        IsMinimumOver({q \in StationSeqs :
                          NodeOrder(q) /\ WithinRange(ViaStations(q))})

\* a result with a stop, where another sequence within range costs more
C1_Witness ==
    /\ FeasibleResult
    /\ Len(result.stops) >= 1
    /\ \E q \in StationSeqs :
          /\ NodeOrder(q) /\ WithinRange(ViaStations(q))
          /\ PathCost(ViaStations(q), 1) > min_costs[end_idx].cost

RECURSIVE SumOf(_, _)
SumOf(s, field) ==
    IF s = <<>> THEN 0 ELSE s[1][field] + SumOf(Tail(s), field)

\* the nodes of the chosen path: Start, the stations of the stops, End
ChosenPath ==
    <<0>> \o [i \in 1..Len(result.stops) |->
                CHOOSE k \in StationIdx : all_nodes[k] = result.stops[i].station]
          \o <<end_idx>>

\* cost of the Start segment of the chosen path, over CentDen
StartSegmentCost ==
    LET p == ChosenPath
    IN  (all_nodes[p[2]].route_mile_marker + all_nodes[p[2]].deviation_distance)
            * all_nodes[0].retail_price

\* length of the Start segment of the chosen path, in half miles
StartSegmentDist ==
    LET p == ChosenPath
    IN  all_nodes[p[2]].route_mile_marker + all_nodes[p[2]].deviation_distance

\* C2 (as claimed): the stops' costs sum to total_cost within 0.02
C2_StopCostsSumToTotal ==
    FeasibleResult =>
        Abs(SumOf(result.stops, "cost") - result.total_cost) <= 2

\* C2 (amended): the cost of the Start segment (the fuel bought at the
\* start price) plus the stops' costs equals total_cost within 0.02, plus
\* 0.005 for every stop
C2_StartPlusStopCosts ==
    FeasibleResult =>
        2 * Abs(StartSegmentCost + CentDen * SumOf(result.stops, "cost")
                    - CentDen * result.total_cost)
            <= CentDen * (Len(result.stops) + 4)

C2_Witness ==
    /\ FeasibleResult
    /\ Len(result.stops) >= 2
    /\ StartSegmentCost > 0
    /\ StartSegmentCost % CentDen # 0

\* C3 (as claimed): the stops' gallons_filled sum to total_gallons within 0.02
C3_StopGallonsSumToTotal ==
    FeasibleResult =>
        Abs(SumOf(result.stops, "gallons_filled") - result.total_gallons) <= 2

\* C3 (amended): the gallons of the Start segment plus the stops'
\* gallons_filled equal total_gallons within 0.02, plus 0.005 for every stop
C3_StartPlusStopGallons ==
    FeasibleResult =>
        2 * Abs(100 * StartSegmentDist
                    + GallonDen * SumOf(result.stops, "gallons_filled")
                    - GallonDen * result.total_gallons)
            <= GallonDen * (Len(result.stops) + 4)

C3_Witness ==
    /\ FeasibleResult
    /\ Len(result.stops) >= 2
    /\ \E i \in 1..Len(result.stops) :
          result.stops[i].station.deviation_distance > 0

\* C4: the stops are strictly increasing in mile_marker and every
\* mile_marker lies strictly between 0 and route_distance
C4_StopsStrictlyIncreasing ==
    Returned =>
        /\ \A i \in 1..(Len(result.stops) - 1) :
              result.stops[i].mile_marker < result.stops[i + 1].mile_marker
        /\ \A i \in 1..Len(result.stops) :
              /\ 0 < result.stops[i].mile_marker
              /\ result.stops[i].mile_marker < route_distance

\* C5 (as claimed): when the direct Start -> End edge is within the vehicle
\* range, no station is inserted
C5_DirectEdgeMeansNoStops ==
    (Returned /\ route_distance <= engine.vehicle_range) =>
        result.stops = <<>>

Scenario1 ==
    /\ engine.vehicle_range = Miles(500)
    /\ route_distance = Miles(300)

DirectCost == route_distance * all_nodes[0].retail_price

\* C5 (amended): when the direct Start -> End edge is within the vehicle
\* range the result is never the sentinel and total_cost is at most the cost
\* of the direct drive at the start price; there are zero stops unless a
\* sequence of stations costs less than that, as the engine computes costs:
\* in the scenario the start price is the mean 3.50 and the result has the
\* one stop at mile 100, for 95.00 instead of 105.00
C5_DirectEdgeStopsOnlyIfCheaper ==
    (Returned /\ route_distance <= engine.vehicle_range) =>
        /\ FeasibleResult
        /\ result.total_cost <= round2_amount(DirectCost, CentDen)
        /\ result.stops # <<>> => min_costs[end_idx].cost < DirectCost
        /\ Scenario1 =>
              /\ all_nodes[0].retail_price = Cents(350)
              /\ Len(result.stops) = 1
              /\ result.stops[1].mile_marker = Miles(100)
              /\ result.total_cost = 9500

\* a direct edge within range, a dearer station on the way, and no stop
C5_Witness ==
    /\ Returned
    /\ route_distance <= engine.vehicle_range
    /\ \E i \in 1..Len(stations) :
          /\ stations[i].retail_price > all_nodes[0].retail_price
          /\ 0 < stations[i].route_mile_marker
          /\ stations[i].route_mile_marker < route_distance
    /\ result.stops = <<>>
    /\ result.total_cost = round2_amount(DirectCost, CentDen)

\* C6: the last tracker entry's total_spent equals total_cost within 0.02
C6_TrackerEndsAtTotal ==
    FeasibleResult =>
        /\ result.tracker # <<>>
        /\ Abs(result.tracker[Len(result.tracker)].total_spent
                 - result.total_cost) <= 2

\* C7: the tracker is strictly increasing in mile and non-decreasing in
\* total_spent
C7_TrackerMonotone ==
    Returned =>
        \A i \in 1..(Len(result.tracker) - 1) :
            /\ result.tracker[i].mile < result.tracker[i + 1].mile
            /\ result.tracker[i].total_spent <= result.tracker[i + 1].total_spent

\* a tracker that spans the segment boundary at a stop
C7_Witness ==
    /\ FeasibleResult
    /\ Len(result.stops) >= 1
    /\ \E i \in 1..(Len(result.tracker) - 1) :
          /\ result.tracker[i].mile = int(result.stops[1].mile_marker)
          /\ result.tracker[i].total_spent < result.tracker[i + 1].total_spent

\* C8: every consecutive pair of the chosen path (Start, the stops in order,
\* End) is within the vehicle range
C8_ChosenSegmentsWithinRange ==
    FeasibleResult =>
        /\ ChosenPath = path_indices
        /\ WithinRange(ChosenPath)

\* a chosen path with a stop, where some station was out of reach of Start
\* by its deviation alone
C8_Witness ==
    /\ FeasibleResult
    /\ Len(result.stops) >= 1
    /\ \E k \in StationIdx :
          /\ all_nodes[k].route_mile_marker <= engine.vehicle_range
          /\ all_nodes[k].route_mile_marker + all_nodes[k].deviation_distance
                > engine.vehicle_range

NoPathExists ==
    \A q \in StationSeqs :
        NonDecreasingMiles(q) => ~WithinRange(ViaStations(q))

\* C9: when no path from Start to End exists under the range constraint,
\* plan_trip returns exactly the sentinel and the response reports
\* total_cost -1, total_gallons 0, total_stops 0, no stops, no progression
C9_InfeasibleSentinel ==
    /\ (Returned /\ NoPathExists) =>
          /\ result.stops = <<>>
          /\ result.total_cost = -100
          /\ result.tracker = <<>>
          /\ result.total_gallons = 0
    /\ (pc = "responded" /\ NoPathExists) =>
          /\ response.fuel_summary.total_cost = -100
          /\ response.fuel_summary.total_gallons = 0
          /\ response.fuel_summary.total_stops = 0
          /\ response.stops = <<>>
          /\ response.per_mile_progression = <<>>

\* an infeasible trip with stations, some of them reached by the search
C9_Witness ==
    /\ pc = "responded"
    /\ NoPathExists
    /\ Len(stations) >= 1
    /\ Cardinality(DOMAIN min_costs) >= 2

(***************************************************************************)
(* The scan-break                                                          *)
(***************************************************************************)
\* every node within range of a reached node has been relaxed from it
NoNeighbourSkipped ==
    \A u \in DOMAIN min_costs \ {end_idx} :
        \A v \in (u + 1)..end_idx :
            ~exceeds_range(u, v) =>
                /\ v \in DOMAIN min_costs
                /\ min_costs[v].cost <= min_costs[u].cost + fuel_cost(u, v)

\* C16: with mile markers in [0, route_distance] and non-negative
\* deviations, the break on route_dist > vehicle_range skips no neighbour
\* that is within range, and whenever some sequence of stations from Start
\* to End is within range plan_trip does not return the sentinel
C16_ScanBreakSound ==
    Returned =>
        /\ NoNeighbourSkipped
        /\ ~NoPathExists => result.total_cost # -100

\* a plan was found; the scan from Start passed over a station that its
\* detour puts out of range, relaxed a later station, and was broken off at
\* a node whose route distance is beyond the range
C16_Witness ==
    /\ pc = "responded"
    /\ result.total_cost # -100
    /\ \E v \in 1..end_idx : route_dist(0, v) > engine.vehicle_range
    /\ \E v \in 1..end_idx :
          /\ exceeds_range(0, v)
          /\ ~scan_break(0, v)
          /\ \E w \in (v + 1)..end_idx : ~exceeds_range(0, w)

(***************************************************************************)
(* Tie-breaking                                                            *)
(***************************************************************************)
\* a recorded <<cost, parent>> is replaced only by one of a lower cost
ReplacedOnlyByCheaper ==
    pc = "search" =>
        \A v \in DOMAIN min_costs :
            /\ v \in DOMAIN min_costs'
            /\ \/ min_costs'[v] = min_costs[v]
               \/ min_costs'[v].cost < min_costs[v].cost

\* the stations of the stops, in order
StopIds(r) == [i \in 1..Len(r.stops) |-> r.stops[i].station.id]

\* C17: a later relaxation with an equal cost never replaces the recorded
\* predecessor, and a second run on the same station list chooses the same
\* path
C17_TieBreaking ==
    [][/\ ReplacedOnlyByCheaper
       /\ (previous'.taken /\ pc' = "returned") =>
             StopIds(result') = StopIds(previous'.result)]_vars

\* node w was expanded after the recorded predecessor of node v and reaches
\* v at exactly the recorded cost
TieAt(v, w) ==
    LET u == min_costs[v].parent
    IN  /\ w \in DOMAIN min_costs
        /\ w < v
        /\ w # u
        /\ ~exceeds_range(w, v)
        /\ min_costs[w].cost + fuel_cost(w, v) = min_costs[v].cost
        /\ \/ min_costs[u].cost < min_costs[w].cost
           \/ (min_costs[u].cost = min_costs[w].cost /\ u < w)

\* the second run has ended, and in it two paths reached a node at equal
\* cost
C17_Witness ==
    /\ previous.taken
    /\ pc = "responded"
    /\ \E v \in DOMAIN min_costs \ {0} : \E w \in 0..end_idx : TieAt(v, w)

(***************************************************************************)
(* The search settles a node when it pops it                               *)
(***************************************************************************)
Settled == {popped[i] : i \in 1..Len(popped)}

\* a node that was popped with a non-stale cost keeps its <<cost, parent>>
SettledNeverChanged ==
    pc = "search" =>
        \A u \in Settled :
            /\ u \in DOMAIN min_costs'
            /\ min_costs'[u] = min_costs[u]

PoppedOnce(seq) ==
    \A i, j \in 1..Len(seq) : i # j => seq[i] # seq[j]

ParentsPrecede(mc) ==
    \A v \in DOMAIN mc \ {0} :
        /\ mc[v].parent \in DOMAIN mc
        /\ mc[v].parent < v

\* C18: with non-negative prices and distances, a node popped with a
\* non-stale cost keeps its recorded cost and predecessor from then on, no
\* node is expanded twice, every recorded predecessor has a smaller index
\* than its successor, and so the path rebuilt from End begins at Start
C18_PoppedNodesAreFinal ==
    [][/\ SettledNeverChanged
       /\ PoppedOnce(popped')
       /\ ParentsPrecede(min_costs')
       /\ (pc' = "returned" /\ end_idx \in DOMAIN min_costs') =>
             /\ path_from(min_costs', end_idx)[1] = 0
             /\ result'.total_cost # -100]_vars

\* the search is over, it expanded Start and two stations, and one of them
\* was first recorded from Start and later reached more cheaply from
\* another station
C18_Witness ==
    /\ pc = "responded"
    /\ Len(popped) >= 4
    /\ \E v \in DOMAIN min_costs \ {0} :
          /\ ~exceeds_range(0, v)
          /\ min_costs[v].parent # 0

(***************************************************************************)
(* The price of the Start and End nodes                                    *)
(***************************************************************************)
NearOrigin == {i \in StationIdx : stations[i].route_mile_marker <= Miles(15)}

IsLeastPriceOf(p, S) ==
    /\ \E i \in S : stations[i].retail_price = p
    /\ \A i \in S : p <= stations[i].retail_price

\* C11: the Start node's price is the least retail price among the stations
\* within 15 miles of the origin if there is one, otherwise the mean retail
\* price of all the stations, otherwise (no stations) 3.5; the End node's
\* price is 0
C11_StartPrice ==
    pc # "idle" =>
        /\ NearOrigin # {} =>
              IsLeastPriceOf(all_nodes[0].retail_price, NearOrigin)
        /\ (NearOrigin = {} /\ stations # <<>>) =>
              all_nodes[0].retail_price * Len(stations) = sum_price(stations)
        /\ stations = <<>> => all_nodes[0].retail_price = Cents(350)
        /\ all_nodes[end_idx].retail_price = 0

\* the only station within 15 miles is exactly 15 miles from the origin,
\* and a cheaper station lies beyond
C11_Witness ==
    /\ pc = "responded"
    /\ \E i \in NearOrigin :
          /\ NearOrigin = {i}
          /\ stations[i].route_mile_marker = Miles(15)
          /\ \E j \in StationIdx :
                stations[j].retail_price < stations[i].retail_price

(***************************************************************************)
(* Scoring and routing                                                     *)
(***************************************************************************)
\* a stop without its score
Unscored(stop) ==
    [station |-> stop.station, mile_marker |-> stop.mile_marker,
     gallons_filled |-> stop.gallons_filled, cost |-> stop.cost,
     price_per_gallon |-> stop.price_per_gallon]

Routing(r) ==
    [stops |-> [i \in 1..Len(r.stops) |-> Unscored(r.stops[i])],
     total_cost |-> r.total_cost, total_gallons |-> r.total_gallons,
     tracker |-> r.tracker]

DifferOnlyInScoring(e1, e2) ==
    /\ e1.vehicle_range = e2.vehicle_range
    /\ e1.mpg = e2.mpg

\* C12: two engines that differ only in price_weight, deviation_weight or
\* detour_penalty, called with the same route_distance and stations, return
\* the same stops (but for their scores), total_cost, total_gallons and
\* tracker
C12_ScoringNeverInfluencesRouting ==
    (/\ previous.taken
     /\ Returned
     /\ DifferOnlyInScoring(previous.engine, engine)
     /\ previous.route_distance = route_distance
     /\ previous.stations = stations) =>
        Routing(result) = Routing(previous.result)

\* the second engine has another deviation_weight, both plans stop at the
\* same station off the route, and the two scores of that stop differ
C12_Witness ==
    /\ previous.taken
    /\ pc = "responded"
    /\ previous.engine.deviation_weight # engine.deviation_weight
    /\ Len(result.stops) >= 1
    /\ Len(previous.result.stops) = Len(result.stops)
    /\ result.stops[1].station.deviation_distance > 0
    /\ result.stops[1].score # previous.result.stops[1].score

(***************************************************************************)
(* The score                                                               *)
(***************************************************************************)
ScoredIdx == 1..Len(scored.stations)

Dearer(i, j) ==
    /\ scored.stations[i].retail_price < scored.stations[j].retail_price
    /\ scored.stations[i].deviation_distance
          = scored.stations[j].deviation_distance

Farther(i, j) ==
    /\ scored.stations[i].deviation_distance
          < scored.stations[j].deviation_distance
    /\ scored.stations[i].retail_price = scored.stations[j].retail_price

ScoreInRange == \A i \in ScoredIdx : scored.score[i] \in 0..1000

\* C13: the score of a station with a positive price and a non-negative
\* deviation lies in [0, 10], and the reported score is strictly decreasing
\* in the price and strictly decreasing in the deviation distance
C13_ScoreStrictlyDecreasing ==
    scored.called =>
        /\ ScoreInRange
        /\ \A i, j \in ScoredIdx :
              (Dearer(i, j) \/ Farther(i, j)) =>
                  scored.score[i] > scored.score[j]

\* C13, amended: the score lies in [0, 10], and the reported score never
\* increases with the price and never increases with the deviation distance
C13_ScoreNonIncreasing ==
    scored.called =>
        /\ ScoreInRange
        /\ \A i, j \in ScoredIdx :
              (Dearer(i, j) \/ Farther(i, j)) =>
                  scored.score[i] >= scored.score[j]

\* under the default weights, a station a cent dearer than another at the
\* same deviation, with the same reported score
C13_Witness ==
    /\ scored.called
    /\ engine.price_weight = 10
    /\ engine.deviation_weight = 2
    /\ \E i, j \in ScoredIdx :
          Dearer(i, j) /\ scored.score[i] = scored.score[j]

(***************************************************************************)
(* Properties of the request pipeline                                      *)
(***************************************************************************)
\* C14: every station handed to plan_trip has its route_mile_marker in
\* [0, route.total_distance_miles]
C14_MileMarkersWithinRoute ==
    (http.pc = "planning") =>
        \A i \in 1..Len(stations) :
            /\ 0 <= stations[i].route_mile_marker
            /\ stations[i].route_mile_marker <= route_distance

\* C15: when the routing service returns no route, the request ends with
\* an error response, and in that request the catalogue is not queried,
\* plan_trip is not called and no response is written to the cache
C15_NoRouteFailsCleanly ==
    http.no_route =>
        /\ http.pc = "done"
        /\ http.status = 400
        /\ DOMAIN http.body = {"error"}
        /\ http.calls = {"get_route"}
        /\ http.cache_key \notin DOMAIN cache

\* the service knows both locations and finds no route between them; the
\* request wrote the coordinates of its start to the cache
C15_Witness ==
    /\ http.no_route
    /\ http.pc = "done"
    /\ geo_key(http.start_location) \in DOMAIN cache
    /\ http.n = MaxRequests

\* the stripped, lower-cased location
Normalised(location) == lower(strip(location))

\* C19: a cached trip plan is returned only to a request whose normalised
\* start_location and end_location are those of the request that stored it
C19_CacheHitSameLocations ==
    (http.pc = "done" /\ http.cached) =>
        /\ Normalised(http.start_location)
              = Normalised(stored_by[http.cache_key].start_location)
        /\ Normalised(http.end_location)
              = Normalised(stored_by[http.cache_key].end_location)

(***************************************************************************)
(* Properties of the corridor selector                                     *)
(***************************************************************************)
\* the distance from a coordinate to the nearest of the vertices, -1 if
\* there is no vertex
NearestVertexDist(coord, vertices) ==
    IF vertices = <<>> THEN -1
    ELSE SetMin({haversine(coord, vertices[i]) : i \in 1..Len(vertices)})

InCorridor(row) ==
    LET d == NearestVertexDist(<<row.latitude, row.longitude>>,
                               decode(corridor.polyline_str))
    IN  d # -1 /\ d <= corridor.buffer_miles

Selected(row) ==
    \E j \in 1..Len(corridor.stations) : corridor.stations[j].id = row.id

\* C10: the selector returns every catalogue station whose distance to the
\* nearest decoded polyline vertex is <= buffer_miles, and no other station
C10_CorridorComplete ==
    corridor.called =>
        \A i \in 1..Len(catalogue) :
            InCorridor(catalogue[i]) <=> Selected(catalogue[i])

====
